---- MODULE Spec2Model ----
(***************************************************************************)
(* Backend process supervision of the Document-Q-A desktop shell           *)
(* (frontend/src-tauri/src/lib.rs).                                        *)
(*                                                                         *)
(* Three kinds of control flow touch the state:                            *)
(*   - the setup callback (lines 14-109), run once;                        *)
(*   - the window-event handler (lines 110-124), run once per window       *)
(*     event, possibly while the setup callback or another handler is in   *)
(*     progress (the slot is behind a Mutex for that reason);              *)
(*   - the relay task (lines 81-100), spawned by the setup callback.       *)
(* The child process and the channel that carries its events are the       *)
(* environment.                                                            *)
(***************************************************************************)
EXTENDS Integers, Sequences, FiniteSets, TLC

\* ------------------------------------------------------------------ bounds
MaxStops == 2       \* window events handled in one run
MaxEvents == 2      \* events the child's channel carries in one run

\* --------------------------------------------------------------- constants
None == 0                       \* Option::None of the handle slot
Free == <<"free">>              \* the Mutex is not held
SetupHolder == <<"setup">>      \* the setup callback holds the Mutex
StopHolder(i) == <<"stop", i>>  \* window-event handler i holds the Mutex
Stops == 1..MaxStops
Modes == {"debug", "release"}   \* cfg!(debug_assertions)

Lines == {"ready", "\\xFF"}     \* byte lines; the second is not valid UTF-8
ExitCodes == {0, 1}             \* clean exit, crash

VARIABLES
    mode,        \* build mode of the binary
    setupPc,     \* position of the setup callback
    setupChild,  \* the setup callback's local `child` (between spawn and store)
    slot,        \* BackendProcess.0 : Option<CommandChild>
    lock,        \* holder of the Mutex: Free, SetupHolder or StopHolder(i)
    spawned,     \* number of successful sidecar.spawn() calls
    childState,  \* "none" | "running" | "exited"
    produced,    \* events sent into the channel so far, in order
    consumed,    \* number of events the relay has received
    chanClosed,  \* every sender of the channel is dropped
    relayPc,     \* "none" | "running" | "ended"
    stopPc,      \* position of each window-event handler
    stopChild,   \* each handler's local `child_option`
    killCalls,   \* number of child.kill() calls made
    setupLog,    \* log records written by the setup callback
    relayLog,    \* log records written by the relay task
    stopLog,     \* log records written by each window-event handler
    takes        \* history: the takes in lock order, with the setup phase and relayPc of each

vars == <<mode, setupPc, setupChild, slot, lock, spawned, childState, produced,
          consumed, chanClosed, relayPc, stopPc, stopChild, killCalls,
          setupLog, relayLog, stopLog, takes>>

setupVars == <<setupPc, setupChild, spawned, setupLog>>
childVars == <<childState, produced, chanClosed>>
relayVars == <<consumed, relayPc, relayLog>>
stopVars  == <<stopPc, stopChild, killCalls, stopLog, takes>>

\* ------------------------------------------------------------ log records
Entry(level, fmt, arg) == [level |-> level, fmt |-> fmt, arg |-> arg]

\* String::from_utf8_lossy: invalid bytes become U+FFFD
Utf8Lossy(line) == IF line = "\\xFF" THEN "U+FFFD" ELSE line

\* ------------------------------------------------------------- the events
Stdout(line) == [kind |-> "Stdout", data |-> line]
Stderr(line) == [kind |-> "Stderr", data |-> line]
Error(err)   == [kind |-> "Error", data |-> err]
Terminated(payload) == [kind |-> "Terminated", data |-> payload]

OutputEvents ==
    {Stdout(l) : l \in Lines} \cup {Stderr(l) : l \in Lines} \cup {Error("io")}

ExitPayload(code) == [code |-> code, signal |-> None]
KillPayload == [code |-> -1, signal |-> 9]

\* What the wait thread sends when the child is gone: the termination notice,
\* or an error when waiting on the child failed.
WaitEvents(payload) == {Terminated(payload), Error("wait")}

\* ------------------------------------------------------- setup callback
\* The application is gone: the setup callback returned an error (line 21, which
\* fails the expect of line 126) or panicked (lines 48, 56, 61 and 69).
Crashed == setupPc \in {"failed", "panic_home", "panic_sidecar"}

\* lines 45-62: the data directory, or a panic of home_dir().unwrap()
DataDir(os, appdata, home) ==
    IF os = "windows"
    THEN IF appdata # "unset" THEN <<appdata, "Document-QA">>
         ELSE IF home = "none" THEN <<"panic">>
         ELSE <<home, "AppData\\Roaming", "Document-QA">>
    ELSE IF home = "none" THEN <<"panic">>
    ELSE IF os = "macos"
         THEN <<home, "Library", "Application Support", "Document-QA">>
         ELSE <<home, ".document-qa">>

\* A build that spawns the backend in every mode.
SpawnsBackendAlways(m) == TRUE

\* lines 25, 38: #[cfg(not(debug_assertions))]
SpawnsBackend(m) == m = "release"

\* lines 16-22, 33, 42: log plugin in a debug build, then the mode's branch
SetupStart ==
    /\ setupPc = "start"
    /\ \E pluginOk \in BOOLEAN :
         IF mode = "debug" /\ ~pluginOk
         THEN /\ setupPc' = "failed"
              /\ UNCHANGED setupLog
         ELSE IF SpawnsBackend(mode)
         THEN /\ setupLog' = Append(setupLog, Entry("info", "production mode", ""))
              /\ setupPc' = "datadir"
         ELSE /\ setupLog' = Append(setupLog, Entry("info", "dev mode", ""))
              /\ setupPc' = "done"
    /\ UNCHANGED <<mode, setupChild, spawned, slot, lock>>
    /\ UNCHANGED <<childVars, relayVars, stopVars>>

\* lines 45-65
SetupDataDir ==
    /\ setupPc = "datadir"
    /\ \E os \in {"windows", "macos", "linux"},
          appdata \in {"unset", "C:\\AppData"},
          home \in {"none", "/home/u"} :
         setupPc' = IF DataDir(os, appdata, home) = <<"panic">>
                    THEN "panic_home" ELSE "sidecar"
    /\ UNCHANGED <<mode, setupChild, spawned, setupLog, slot, lock>>
    /\ UNCHANGED <<childVars, relayVars, stopVars>>

\* lines 67-70: shell.sidecar("backend").expect(..)
SetupSidecar ==
    /\ setupPc = "sidecar"
    /\ \E found \in BOOLEAN :
         setupPc' = IF found THEN "spawn" ELSE "panic_sidecar"
    /\ UNCHANGED <<mode, setupChild, spawned, setupLog, slot, lock>>
    /\ UNCHANGED <<childVars, relayVars, stopVars>>

\* A setup callback that tries the spawn again after a failure.
RetryAfterSpawnError == "spawn"

\* lines 102-108: after the Err arm the callback goes on to Ok(())
AfterSpawnError == "done"

\* lines 72-74 and 102-104: sidecar.spawn()
SetupSpawn ==
    /\ setupPc = "spawn"
    /\ \E ok \in BOOLEAN :
         IF ok
         THEN /\ spawned' = spawned + 1
              /\ setupChild' = spawned + 1
              /\ childState' = "running"
              /\ setupLog' = Append(setupLog, Entry("info", "backend started", ""))
              /\ setupPc' = "lock"
         ELSE /\ setupLog' = Append(setupLog, Entry("error", "spawn failed: {}", "os"))
              /\ setupPc' = AfterSpawnError
              /\ UNCHANGED <<spawned, setupChild, childState>>
    /\ UNCHANGED <<mode, slot, lock, produced, chanClosed>>
    /\ UNCHANGED <<relayVars, stopVars>>

\* line 78: state.0.lock().unwrap()
SetupLock ==
    /\ setupPc = "lock"
    /\ lock = Free
    /\ lock' = SetupHolder
    /\ setupPc' = "store"
    /\ UNCHANGED <<mode, setupChild, spawned, setupLog, slot>>
    /\ UNCHANGED <<childVars, relayVars, stopVars>>

\* line 78: *guard = Some(child); the guard is dropped at the end of the statement
SetupStore ==
    /\ setupPc = "store"
    /\ lock = SetupHolder
    /\ slot' = setupChild
    /\ setupChild' = None
    /\ lock' = Free
    /\ setupPc' = "relay"
    /\ UNCHANGED <<mode, spawned, setupLog>>
    /\ UNCHANGED <<childVars, relayVars, stopVars>>

\* lines 81, 100, 108: tauri::async_runtime::spawn(..), then Ok(())
SetupSpawnRelay ==
    /\ setupPc = "relay"
    /\ relayPc' = "running"
    /\ setupPc' = "done"
    /\ UNCHANGED <<mode, setupChild, spawned, setupLog, slot, lock>>
    /\ UNCHANGED <<childVars, consumed, relayLog, stopVars>>

\* ------------------------------------------------- the child and its channel
\* The child's reader threads send an output line or an I/O error.
ChildOutput ==
    /\ childState # "none"
    /\ ~chanClosed
    /\ Len(produced) < MaxEvents - (IF childState = "exited" THEN 0 ELSE 1)
    /\ \E ev \in OutputEvents : produced' = Append(produced, ev)
    /\ UNCHANGED <<mode, slot, lock, childState, chanClosed>>
    /\ UNCHANGED <<setupVars, relayVars, stopVars>>

\* The child exits on its own; the wait thread sends its last event.
ChildExit ==
    /\ childState = "running"
    /\ \E code \in ExitCodes : \E ev \in WaitEvents(ExitPayload(code)) :
         produced' = Append(produced, ev)
    /\ childState' = "exited"
    /\ UNCHANGED <<mode, slot, lock, chanClosed>>
    /\ UNCHANGED <<setupVars, relayVars, stopVars>>

\* Every sender is dropped once the child is gone.
ChannelClose ==
    /\ childState = "exited"
    /\ ~chanClosed
    /\ chanClosed' = TRUE
    /\ UNCHANGED <<mode, slot, lock, childState, produced>>
    /\ UNCHANGED <<setupVars, relayVars, stopVars>>

\* ------------------------------------------------------------- relay task
\* A relay that writes the child's standard output at warning level.
RelayEntryStdoutWarn(ev) ==
    IF ev.kind = "Stdout"
    THEN <<Entry("warn", "[Backend] {}", Utf8Lossy(ev.data))>>
    ELSE <<Entry("info", "[Backend] exited: {:?}", ev.data)>>

\* lines 83-98: the log record of an event, if it has one
RelayEntry(ev) ==
    CASE ev.kind = "Stdout" -> <<Entry("info", "[Backend] {}", Utf8Lossy(ev.data))>>
      [] ev.kind = "Stderr" -> <<Entry("warn", "[Backend] {}", Utf8Lossy(ev.data))>>
      [] ev.kind = "Error"  -> <<Entry("error", "[Backend] Error: {}", ev.data)>>
      [] ev.kind = "Terminated" -> <<Entry("info", "[Backend] exited: {:?}", ev.data)>>
      [] OTHER -> <<>>

\* A loop without the break of line 95.
RelayNeverBreaks(ev) == FALSE

\* line 95: only the termination notice breaks out of the loop
RelayBreaks(ev) == ev.kind = "Terminated"

\* A receive that hands over the newest event instead of the oldest.
RecvNewest(n, len) == len

\* line 82: rx.recv() hands over the oldest event not yet received
RecvIndex(n, len) == n + 1

\* A relay that empties the slot when it sees the termination notice.
SlotClearedOnExit(s, ev) == IF ev.kind = "Terminated" THEN None ELSE s

\* lines 82-99: the loop body has no access to BackendProcess
SlotAfterRelay(s, ev) == s

\* lines 82-99: one iteration of the loop
RelayStep ==
    /\ relayPc = "running"
    /\ consumed < Len(produced)
    /\ LET ev == produced[RecvIndex(consumed, Len(produced))] IN
         /\ relayLog' = relayLog \o RelayEntry(ev)
         /\ relayPc' = IF RelayBreaks(ev) THEN "ended" ELSE "running"
         /\ slot' = SlotAfterRelay(slot, ev)
    /\ consumed' = consumed + 1
    /\ UNCHANGED <<mode, lock>>
    /\ UNCHANGED <<setupVars, childVars, stopVars>>

\* line 82: rx.recv() returns None
RelayClosed ==
    /\ relayPc = "running"
    /\ consumed = Len(produced)
    /\ chanClosed
    /\ relayPc' = "ended"
    /\ UNCHANGED <<mode, slot, lock, consumed, relayLog>>
    /\ UNCHANGED <<setupVars, childVars, stopVars>>

\* --------------------------------------------------- window-event handler
\* lines 112-113: the handler is entered with a window event; any event but
\* CloseRequested leaves the handler at once, with nothing done
WindowEvent(i) ==
    /\ ~Crashed
    /\ stopPc[i] = "idle"
    /\ \A j \in Stops : j < i => stopPc[j] # "idle"
    /\ \E ev \in {"CloseRequested", "Focused"} :
         IF ev = "CloseRequested"
         THEN /\ stopLog' = [stopLog EXCEPT
                    ![i] = Append(@, Entry("info", "window closing", ""))]
              /\ stopPc' = [stopPc EXCEPT ![i] = "lock"]
         ELSE UNCHANGED <<stopPc, stopLog>>
    /\ UNCHANGED <<mode, slot, lock, stopChild, killCalls, takes>>
    /\ UNCHANGED <<setupVars, childVars, relayVars>>

\* line 116: state.0.lock().unwrap()
StopLock(i) ==
    /\ ~Crashed
    /\ stopPc[i] = "lock"
    /\ lock = Free
    /\ lock' = StopHolder(i)
    /\ stopPc' = [stopPc EXCEPT ![i] = "take"]
    /\ UNCHANGED <<mode, slot, stopChild, killCalls, stopLog, takes>>
    /\ UNCHANGED <<setupVars, childVars, relayVars>>

\* The part of the setup callback a take falls in: before the spawn, between
\* the spawn and the store, after the store, or after a failed spawn.
Phase(pc) ==
    IF pc \in {"lock", "store"} THEN "spawned"
    ELSE IF pc \in {"relay", "done"} /\ spawned > 0 THEN "stored"
    ELSE IF pc = "done" /\ mode = "release" THEN "failed"
    ELSE "unspawned"

\* A handler that goes on to the kill whatever it took.
HasChildAlways(opt) == TRUE

\* line 117: if let Some(child) = child_option
HasChild(opt) == opt # None

\* A take that leaves the handle behind (a clone, or as_ref, instead of take).
SlotAfterPeek(s) == s

\* line 116: Option::take leaves None in the slot
SlotAfterTake(s) == None

\* A handler that keeps the guard alive until it returns.
LockKeptAfterTake(i) == StopHolder(i)

\* line 116: the block around the take drops the guard before the kill
LockAfterTake(i) == Free

\* lines 116-117: .take(), the guard is dropped at the end of the block
StopTake(i) ==
    /\ ~Crashed
    /\ stopPc[i] = "take"
    /\ lock = StopHolder(i)
    /\ stopChild' = [stopChild EXCEPT ![i] = slot]
    /\ slot' = SlotAfterTake(slot)
    /\ lock' = LockAfterTake(i)
    /\ stopPc' = [stopPc EXCEPT ![i] = IF HasChild(slot) THEN "kill" ELSE "done"]
    /\ takes' = Append(takes, [stop |-> i, at |-> Phase(setupPc), relay |-> relayPc])
    /\ UNCHANGED <<mode, killCalls, stopLog>>
    /\ UNCHANGED <<setupVars, childVars, relayVars>>

\* A handler that drops the error of a failed kill without a record.
KillRecordOkOnly(ok) ==
    IF ok THEN <<Entry("info", "backend terminated", "")>> ELSE <<>>

\* lines 119-120: the record of the kill's outcome
KillRecord(ok) ==
    IF ok THEN <<Entry("info", "backend terminated", "")>>
    ELSE <<Entry("error", "kill failed: {}", "os")>>

\* lines 118-121: child.kill() and the record of its outcome
StopKill(i) ==
    /\ ~Crashed
    /\ stopPc[i] = "kill"
    /\ killCalls' = killCalls + 1
    /\ \E ok \in BOOLEAN :
         /\ stopLog' = [stopLog EXCEPT ![i] = @ \o KillRecord(ok)]
         /\ IF ok
            THEN IF childState = "running"
                 THEN /\ childState' = "exited"
                      /\ \E ev \in WaitEvents(KillPayload) :
                           produced' = Append(produced, ev)
                 ELSE UNCHANGED <<childState, produced>>
            ELSE UNCHANGED <<childState, produced>>
    /\ stopPc' = [stopPc EXCEPT ![i] = "done"]
    /\ UNCHANGED <<mode, slot, lock, stopChild, takes, chanClosed>>
    /\ UNCHANGED <<setupVars, relayVars>>

\* ---------------------------------------------------------- specification
\* line 13: .manage(BackendProcess(Mutex::new(None)))
Init ==
    /\ mode \in Modes
    /\ setupPc = "start"
    /\ setupChild = None
    /\ slot = None
    /\ lock = Free
    /\ spawned = 0
    /\ childState = "none"
    /\ produced = <<>>
    /\ consumed = 0
    /\ chanClosed = FALSE
    /\ relayPc = "none"
    /\ stopPc = [i \in Stops |-> "idle"]
    /\ stopChild = [i \in Stops |-> None]
    /\ killCalls = 0
    /\ setupLog = <<>>
    /\ relayLog = <<>>
    /\ stopLog = [i \in Stops |-> <<>>]
    /\ takes = <<>>

Next ==
    \/ SetupStart
    \/ SetupDataDir
    \/ SetupSidecar
    \/ SetupSpawn
    \/ SetupLock
    \/ SetupStore
    \/ SetupSpawnRelay
    \/ ChildOutput
    \/ ChildExit
    \/ ChannelClose
    \/ RelayStep
    \/ RelayClosed
    \/ \E i \in Stops : WindowEvent(i)
    \/ \E i \in Stops : StopLock(i)
    \/ \E i \in Stops : StopTake(i)
    \/ \E i \in Stops : StopKill(i)

Spec == Init /\ [][Next]_vars

\* ============================================================== the claims
StoredTakes == {k \in 1..Len(takes) : takes[k].at = "stored"}
FirstStored(k) == k \in StoredTakes /\ \A j \in StoredTakes : k <= j
Observers == {i \in Stops : stopChild[i] # None}
KillOutcomes(i) ==
    {k \in 1..Len(stopLog[i]) :
        stopLog[i][k].fmt \in {"backend terminated", "kill failed: {}"}}
SpawnFailureRecords ==
    {k \in 1..Len(setupLog) : setupLog[k].fmt = "spawn failed: {}"}
Quiet == \A i \in Stops : stopPc[i] \in {"idle", "done"}

\* The places that hold a live handle: the setup callback's local, the slot,
\* and the local of a handler that took it and has not yet used it up.
Holders ==
    (IF setupChild # None THEN 1 ELSE 0) + (IF slot # None THEN 1 ELSE 0)
    + Cardinality({i \in Stops : stopPc[i] = "kill"})

\* C1: at most one live handle exists at any instant: the slot holds no handle
\* or one spawned handle, the handle is in one place only, and the handles
\* spawned and not yet taken never number more than one.
C1_AtMostOneLiveHandle ==
    /\ slot \in {None} \cup 1..spawned
    /\ Holders <= 1
    /\ spawned - Cardinality(Observers) <= 1

C1_Witness ==
    /\ spawned = 1
    /\ \E i \in Stops : stopPc[i] = "kill" /\ stopChild[i] # None
    /\ slot = None

\* C2: whenever the spawn succeeded and a window-close request has been
\* handled, the child was sent a kill signal and the slot is empty, whatever
\* the interleaving of the setup callback and the handler.
C2_KillOnShutdown ==
    \A k \in 1..Len(takes) :
        (/\ takes[k].at \in {"spawned", "stored"}
         /\ setupPc = "done"
         /\ Quiet)
        => (killCalls >= 1 /\ slot = None)

\* C3, as stated: after the scenario (one stdout line "ready", then a clean
\* exit) the relay has logged info("ready"), info(termination notice) and has
\* ended, and a stop that follows observes no handle and sends no kill.
ScenarioDone ==
    /\ produced = <<Stdout("ready"), Terminated(ExitPayload(0))>>
    /\ consumed = 2
    /\ relayPc = "ended"

ScenarioLog ==
    <<Entry("info", "[Backend] {}", "ready"),
      Entry("info", "[Backend] exited: {:?}", ExitPayload(0))>>

C3_SubsequentStopNoOp ==
    ScenarioDone =>
        /\ relayLog = ScenarioLog
        /\ \A k \in 1..Len(takes) :
               takes[k].relay = "ended" =>
                   /\ stopChild[takes[k].stop] = None
                   /\ KillOutcomes(takes[k].stop) = {}

\* C3, amended: after the scenario the relay has logged info("ready"),
\* info(termination notice) and has ended; the handle is still in the slot
\* until a stop takes it, so the first stop since the store observes the
\* handle and sends the kill, and only the stops after that one are no-ops.
C3_SubsequentStopTakes ==
    ScenarioDone =>
        /\ relayLog = ScenarioLog
        /\ (slot = None) <=> (StoredTakes # {})
        /\ \A k \in 1..Len(takes) :
               takes[k].relay = "ended" =>
                   /\ (stopChild[takes[k].stop] # None) <=> FirstStored(k)
                   /\ (stopPc[takes[k].stop] = "done" =>
                         Cardinality(KillOutcomes(takes[k].stop))
                           = (IF FirstStored(k) THEN 1 ELSE 0))

C3_Witness ==
    /\ ScenarioDone
    /\ \E k \in 1..Len(takes) :
          /\ takes[k].relay = "ended"
          /\ stopChild[takes[k].stop] # None
          /\ stopPc[takes[k].stop] = "done"
    /\ killCalls = 1

\* C4: a failure of start, the executable not found or the spawn failing, is
\* logged as an error and nothing more: no panic, the slot empty, no relay
\* task, and the setup callback completes.
StartFailed ==
    \/ setupPc = "panic_sidecar"
    \/ mode = "release" /\ setupPc = "done" /\ spawned = 0

C4_StartFailureIsLogged ==
    StartFailed =>
        /\ setupPc = "done"
        /\ \E k \in 1..Len(setupLog) : setupLog[k].level = "error"
        /\ slot = None
        /\ relayPc = "none"

\* C5: if the spawn fails, a stop afterwards is a no-op (no kill signal, no
\* kill outcome logged) and the spawn failure is logged exactly once.
SpawnFailed == mode = "release" /\ setupPc = "done" /\ spawned = 0

C5_SpawnFailureThenStop ==
    /\ Cardinality(SpawnFailureRecords) = (IF SpawnFailed THEN 1 ELSE 0)
    /\ SpawnFailed =>
          /\ slot = None
          /\ killCalls = 0
          /\ \A i \in Stops : stopChild[i] = None /\ KillOutcomes(i) = {}
          /\ \A k \in 1..Len(takes) : stopPc[takes[k].stop] = "done"

C5_Witness ==
    /\ SpawnFailed
    /\ \E k \in 1..Len(takes) : takes[k].at = "failed"

\* C6: a stop when no process was ever started is a no-op: it finds the slot
\* empty and leaves it so, sends no kill signal and logs no kill outcome.
C6_StopBeforeAnyStart ==
    /\ spawned = 0 => (slot = None /\ killCalls = 0)
    /\ \A k \in 1..Len(takes) :
          takes[k].at \in {"unspawned", "failed"} =>
              /\ stopChild[takes[k].stop] = None
              /\ KillOutcomes(takes[k].stop) = {}
              /\ stopPc[takes[k].stop] = "done"

C6_Witness ==
    /\ spawned = 0
    /\ \E k \in 1..Len(takes) : takes[k].at = "unspawned"

\* C7: of the stops made after a successful start, only the first observes a
\* handle and sends a kill; each later one finds the slot empty and leaves the
\* slot and the number of kills as the first left them.
C7_StopIdempotent ==
    /\ \A k \in StoredTakes :
          (stopChild[takes[k].stop] # None) <=> FirstStored(k)
    /\ \A k \in StoredTakes :
          ~FirstStored(k) => stopPc[takes[k].stop] = "done"
                             /\ KillOutcomes(takes[k].stop) = {}
    /\ StoredTakes # {} => slot = None
    /\ killCalls <= 1

C7_Witness ==
    /\ Cardinality(StoredTakes) = 2
    /\ Quiet
    /\ killCalls = 1

\* C8: when stops run concurrently against a stored handle exactly one of them
\* obtains it, the others obtain nothing, and at most one kill is sent per
\* child.
C8_ConcurrentTakeOnce ==
    /\ Cardinality(Observers) <= 1
    /\ StoredTakes # {} => Cardinality(Observers) = 1
    /\ \A i, j \in Stops :
          (i # j /\ stopChild[i] # None) => stopPc[j] # "kill"
    /\ killCalls <= spawned

\* Two handlers overlap: one has taken the handle and not yet killed, the
\* other has already been through its take and found nothing.
C8_Witness ==
    \E i, j \in Stops :
        /\ stopPc[i] = "kill"
        /\ stopPc[j] = "done"
        /\ stopChild[j] = None
        /\ \E k \in StoredTakes : takes[k].stop = j

\* C9: the relay's log is, at every instant, the image of a prefix of the
\* child's event sequence, in the same order, one record per event received.
C9_RelayOrder ==
    /\ Len(relayLog) = consumed
    /\ consumed <= Len(produced)
    /\ \A j \in 1..Len(relayLog) :
          /\ relayLog[j].arg = (IF produced[j].kind \in {"Stdout", "Stderr"}
                                THEN Utf8Lossy(produced[j].data)
                                ELSE produced[j].data)
          /\ relayLog[j].fmt =
                (CASE produced[j].kind = "Terminated" -> "[Backend] exited: {:?}"
                   [] produced[j].kind = "Error" -> "[Backend] Error: {}"
                   [] OTHER -> "[Backend] {}")

C9_Witness ==
    /\ consumed = 2
    /\ produced[1] # produced[2]
    /\ produced[1].kind # "Terminated"

\* C10: the termination notice ends the relay: its record is the last one the
\* relay writes, even when more events are queued in the channel.
TerminationRecords ==
    {j \in 1..Len(relayLog) : relayLog[j].fmt = "[Backend] exited: {:?}"}

C10_TerminationEndsRelay ==
    \A j \in TerminationRecords : j = Len(relayLog) /\ relayPc = "ended"

C10_Witness ==
    /\ TerminationRecords # {}
    /\ consumed < Len(produced)
    /\ chanClosed

\* C11: a stop that observes a handle logs exactly one outcome of the kill,
\* success or failure; a failed kill is only logged: the handler returns, the
\* slot stays empty and the application is not brought down.
KillFailures(i) ==
    {k \in 1..Len(stopLog[i]) : stopLog[i][k].fmt = "kill failed: {}"}

C11_KillOutcomeLogged ==
    \A i \in Stops :
        /\ stopChild[i] # None =>
              /\ slot = None
              /\ stopPc[i] \in {"kill", "done"}
              /\ Cardinality(KillOutcomes(i))
                    = (IF stopPc[i] = "done" THEN 1 ELSE 0)
        /\ stopChild[i] = None => KillOutcomes(i) = {}
        /\ KillFailures(i) # {} =>
              /\ stopPc[i] = "done"
              /\ stopLog[i][Len(stopLog[i])].level = "error"
              /\ slot = None
              /\ ~Crashed

\* The kill failed and the child is still running; the handler has returned.
C11_Witness ==
    \E i \in Stops :
        /\ KillFailures(i) # {}
        /\ stopPc[i] = "done"
        /\ childState = "running"

\* C12: the handle is stored at most once and taken out at most once; the
\* slot is empty before startup, and once a stop has completed the slot is
\* empty and stays empty.
C12_HandleLifecycle ==
    /\ spawned <= 1
    /\ Cardinality(Observers) <= 1
    /\ setupPc = "start" => slot = None
    /\ (\E i \in Stops : stopPc[i] = "done") => slot = None

\* C13: the Mutex is held only for the store or the take: never while the
\* spawn or a kill is in progress, so a kill that blocks stalls no other
\* caller of the lock.
C13_LockOnlyForStoreOrTake ==
    /\ lock \in {Free, SetupHolder} \cup {StopHolder(i) : i \in Stops}
    /\ (lock = SetupHolder) <=> (setupPc = "store")
    /\ \A i \in Stops : (lock = StopHolder(i)) <=> (stopPc[i] = "take")
    /\ setupPc = "spawn" => lock # SetupHolder
    /\ \A i \in Stops : stopPc[i] = "kill" => lock # StopHolder(i)

\* While one handler's kill is in progress another handler holds the lock.
C13_Witness ==
    \E i, j \in Stops :
        /\ i # j
        /\ stopPc[i] = "kill"
        /\ lock = StopHolder(j)

\* C14: no retry and no restart: at most one spawn attempt per run; after a
\* spawn failure, and after a termination notice (crash or clean exit), there
\* is no further spawn and no new handle is stored.
SpawnAttempts ==
    {k \in 1..Len(setupLog) :
        setupLog[k].fmt \in {"backend started", "spawn failed: {}"}}

C14_NoRetry ==
    /\ spawned <= 1
    /\ Cardinality(SpawnAttempts) <= 1
    /\ SpawnFailureRecords # {} =>
          /\ setupPc = "done"
          /\ spawned = 0
          /\ childState = "none"
          /\ setupChild = None /\ slot = None
    /\ TerminationRecords # {} =>
          /\ setupPc = "done"
          /\ spawned = 1
          /\ childState = "exited"
          /\ setupChild = None /\ slot \in {None, 1}

\* The relay has logged the notice of a crash and every handler is at rest.
C14_Witness ==
    /\ \E j \in TerminationRecords : relayLog[j].arg = ExitPayload(1)
    /\ Quiet
    /\ chanClosed

\* C15: in a debug build startup does nothing for the supervisor: no process
\* is spawned, the slot stays empty, no relay task is started, and a later
\* stop sends no kill.
C15_DebugStartupNoOp ==
    mode = "debug" =>
        /\ spawned = 0
        /\ childState = "none" /\ produced = <<>>
        /\ setupChild = None /\ slot = None
        /\ relayPc = "none"
        /\ killCalls = 0
        /\ \A i \in Stops : stopChild[i] = None /\ KillOutcomes(i) = {}
        /\ \A i \in Stops : stopPc[i] \in {"idle", "lock", "take", "done"}

C15_Witness ==
    /\ mode = "debug"
    /\ setupPc = "done"
    /\ setupLog = <<Entry("info", "dev mode", "")>>
    /\ \E i \in Stops : stopPc[i] = "done"

\* C16: the relay logs a standard-output line at info, a standard-error line
\* at warn, a runtime error at error and the termination notice at info; only
\* the termination notice ends the relay, so after an error event the relay
\* is still running and subscribed.
LevelOf(kind) ==
    CASE kind = "Stdout" -> "info"
      [] kind = "Stderr" -> "warn"
      [] kind = "Error" -> "error"
      [] kind = "Terminated" -> "info"

C16_RelayLevels ==
    /\ \A j \in 1..Len(relayLog) :
          j <= Len(produced) /\ relayLog[j].level = LevelOf(produced[j].kind)
    /\ relayPc = "ended" =>
          \/ consumed > 0 /\ produced[consumed].kind = "Terminated"
          \/ chanClosed /\ consumed = Len(produced)
    /\ (/\ relayPc # "none"
        /\ ~chanClosed
        /\ \A j \in 1..consumed : produced[j].kind # "Terminated")
       => relayPc = "running"

\* The relay has just logged a runtime error and goes on.
C16_Witness ==
    /\ consumed > 0
    /\ produced[consumed].kind = "Error"
    /\ relayLog[consumed].level = "error"
    /\ relayPc = "running"
    /\ \E j \in 1..consumed : produced[j].kind = "Stderr"

\* C17: the relay task never touches the slot: whatever it has processed,
\* the termination notice of a child that exited on its own included, a stored
\* handle stays in the slot until a stop takes it.
Stored == setupPc \in {"relay", "done"} /\ spawned > 0

C17_RelayLeavesSlot ==
    /\ Stored => ((slot = None) <=> (StoredTakes # {}))
    /\ ~Stored => slot = None
    /\ (TerminationRecords # {} /\ StoredTakes = {}) => slot = spawned

\* The child exited on its own, the relay logged the notice and ended, and
\* the handle is still in the slot.
C17_Witness ==
    /\ relayPc = "ended"
    /\ \E j \in TerminationRecords : relayLog[j].arg \in {ExitPayload(c) : c \in ExitCodes}
    /\ killCalls = 0
    /\ slot # None

\* The relay is a task of the async runtime: it is resumed whenever an event
\* is waiting in the channel or the channel is closed.
FairSpec == Spec /\ WF_vars(RelayStep) /\ WF_vars(RelayClosed)

\* C18: once the channel holds a termination notice, or is closed, the running
\* relay eventually ends: it does not go on polling.
NoticeQueued ==
    \E j \in (consumed + 1)..Len(produced) : produced[j].kind = "Terminated"

C18_RelayEventuallyEnds ==
    (relayPc = "running" /\ (NoticeQueued \/ chanClosed)) ~> (relayPc = "ended")

\* The channel closed without a termination notice and the relay has ended.
C18_Witness ==
    /\ relayPc = "ended"
    /\ chanClosed
    /\ \A j \in 1..Len(produced) : produced[j].kind # "Terminated"
    /\ consumed = Len(produced)

====
